---- MODULE Spec2Model ----
(***************************************************************************)
(* chksync: compare two folders by the size and the file count of their    *)
(* first-level entries.                                                    *)
(*                                                                         *)
(* Modelled from src/chksync.py:                                           *)
(*   ComparisonData.build_data   - the merge/diff over two scan results    *)
(*   FolderScanner.scan_folder   - the first-level scan of one root        *)
(*                                                                         *)
(* A name is a sequence of code points (Python str), compared as Python    *)
(* compares str values.  A scan result (a dict name -> (size, filecount))  *)
(* is a function from a finite set of names to pairs <<size, filecount>>.  *)
(***************************************************************************)
EXTENDS Integers, Sequences, FiniteSets, TLC

VARIABLES
    entries1,      \* ComparisonData.entries1
    entries2,      \* ComparisonData.entries2
    only_diffs,    \* ComparisonData.only_diffs
    data,          \* ComparisonData.data
    built,         \* TRUE once build_data has returned
    root,          \* the scanned folder: can it be opened, and its listing
    verbose_level, \* FolderScanner.verbose_level
    frame,         \* the locals of the running scan_folder call
    pc,            \* where the scan_folder call is
    result,        \* what scan_folder returned
    folders,       \* FolderComparator.folder1, folder2
    calls,         \* the two scan_folder calls of one FolderScanner
    cpc,           \* where FolderComparator.compare is
    report,        \* what format_output was given
    impl,          \* which build function produced data
    table,         \* the rich Table built by RichFormatter.format_output
    walking,       \* the two os.walk loops over one first-level directory
    targets,       \* where the symbolic links to directories point
    changes        \* how often another process has changed the tree

cmpVars == <<entries1, entries2, only_diffs, data, built>>
scanVars == <<root, verbose_level, frame, pc, result>>
progVars == <<folders, calls, cpc, report>>
extVars == <<impl, table, walking, targets, changes>>
vars == <<entries1, entries2, only_diffs, data, built,
          root, verbose_level, frame, pc, result,
          folders, calls, cpc, report,
          impl, table, walking, targets, changes>>

\* ------------------------------------------------------------ bounds
MaxSize  == 1     \* sizes range over 0..MaxSize
MaxCount == 1     \* file counts range over 0..MaxCount
MaxKeys  == 3     \* keys of entries1 plus keys of entries2
MaxNodes == 3     \* files, links and directories below the scanned root
MaxPairNodes == 2 \* the same, below the two compared roots together
MaxEntries == 2   \* first-level entries of a root with large directories
MaxWalkNodes == 2 \* nodes below a root that is walked directory by directory
MaxLinkNodes == 4 \* nodes below such a root made of directories, links, files
MaxChanges == 1   \* changes another process makes during one scan

\* ------------------------------------------------------------ names
\* "B", "a", "ab": upper case sorts before lower case, a prefix before its
\* extensions.
NamePool == { <<66>>, <<97>>, <<97, 98>> }

\* 'TOTAL', the Name of the totals record (chksync.py:266)
TOTAL == <<84, 79, 84, 65, 76>>

Measurements == (0..MaxSize) \X (0..MaxCount)

\* every dict name -> (size, filecount) over the pool
ScanResults == UNION { [S -> Measurements] : S \in SUBSET NamePool }

\* Python's str.__lt__: the first differing code point decides, a proper
\* prefix is smaller.
RECURSIVE StrLess(_, _)
StrLess(a, b) ==
    IF b = <<>> THEN FALSE
    ELSE IF a = <<>> THEN TRUE
    ELSE IF Head(a) # Head(b) THEN Head(a) < Head(b)
    ELSE StrLess(Tail(a), Tail(b))

\* ------------------------------------------------------------ file system
\* What lies below a scanned root.  kind is what the entry is on disk:
\*   "file"          a regular file of `size` bytes; ok = FALSE: its
\*                   metadata cannot be read (stat raises OSError)
\*   "dir"           a directory holding `children`; ok = FALSE: it cannot
\*                   be listed
\*   "symlink_file"  a symbolic link to a regular file of `size` bytes
\*   "symlink_dir"   a symbolic link to a directory
\*   "other"         a socket, a fifo, a device: st_size is 0
\*   "unknown"       an entry whose type queries and stat raise OSError
Node(kind, size, ok, children) ==
    [ kind |-> kind, size |-> size, ok |-> ok, children |-> children ]

LeafNodes ==
    { Node("file", s, TRUE, <<>>) : s \in 0..MaxSize }
    \cup { Node("file", MaxSize, FALSE, <<>>),
           Node("symlink_file", MaxSize, TRUE, <<>>),
           Node("symlink_dir", 0, TRUE, <<>>),
           Node("other", 0, TRUE, <<>>),
           Node("unknown", 0, FALSE, <<>>),
           Node("dir", 0, FALSE, <<>>) }

RECURSIVE TreesOf(_), ForestsOf(_)
\* the entries made of exactly k nodes
TreesOf(k) ==
    IF k = 1 THEN LeafNodes \cup { Node("dir", 0, TRUE, <<>>) }
    ELSE { Node("dir", 0, TRUE, f) : f \in ForestsOf(k - 1) }

\* the directory listings made of exactly n nodes
ForestsOf(n) ==
    IF n = 0 THEN { <<>> }
    ELSE UNION { { <<t>> \o f : t \in TreesOf(k), f \in ForestsOf(n - k) } :
                 k \in 1..n }

\* base names of the root's children, by position in the listing: the
\* listing order of a directory is not the sorted order
FirstLevelNames == << <<98>>, <<66>>, <<97, 98>>, <<97>>, <<84, 79, 84, 65, 76>> >>

NameAt(i) == IF i <= Len(FirstLevelNames) THEN FirstLevelNames[i]
             ELSE <<122, i>>

\* a root folder: the DirEntry objects os.scandir yields, in listing order
Listing(f) == [ i \in 1..Len(f) |-> [ name |-> NameAt(i), node |-> f[i] ] ]

Roots ==
    { [ ok |-> TRUE, listing |-> Listing(f) ] :
        f \in UNION { ForestsOf(n) : n \in 0..MaxNodes } }
    \cup { [ ok |-> FALSE, listing |-> <<>> ] }

\* ------------------------------------------------------------ os
\* DirEntry.is_file(follow_symlinks=False) / is_dir(follow_symlinks=False)
TypeCheckRaises(n) == n.kind = "unknown"
\* entry.is_file() with the default follow_symlinks=True
is_file_FollowsLinks(n) == n.kind \in {"file", "symlink_file"}

is_file(n) == n.kind = "file"
\* entry.is_dir() with the default follow_symlinks=True
is_dir_FollowsLinks(n) == n.kind \in {"dir", "symlink_dir"}

is_dir(n) == n.kind = "dir"

\* stat following symbolic links (DirEntry.stat(), os.path.getsize)
StatRaises(n) == n.kind = "unknown" \/ (n.kind = "file" /\ ~n.ok)
st_size(n) == n.size

\* os.walk puts an entry among `dirs` when is_dir() (following links) is
\* true, else among `files`; a failing is_dir() counts as false
WalkIsDir(n) == n.kind \in {"dir", "symlink_dir"}

\* os.walk(folder), top down, links not followed, errors of a listing
\* swallowed: the `files` list of each directory visited
RECURSIVE os_walk(_)
RECURSIVE WalkInto(_)
os_walk(d) ==
    IF ~d.ok THEN <<>>
    ELSE << SelectSeq(d.children, LAMBDA c : ~WalkIsDir(c)) >>
         \o WalkInto(SelectSeq(d.children, LAMBDA c : c.kind = "dir"))

WalkInto(dirs) ==
    IF dirs = <<>> THEN <<>>
    ELSE os_walk(Head(dirs)) \o WalkInto(Tail(dirs))

\* ------------------------------------------------------------ FolderScanner
\* progress lines are printed every ProgressEvery files
ProgressEvery == 100

ProgressLine(where, items, size) ==
    [ where |-> where, items |-> items, size |-> size ]

\* os.path.getsize called inside the `if self.verbose_level` block
SizeOneFile_SizedWhenVerbose(st, f, verbose) ==
    [ total_size_this_folder |->
          IF StatRaises(f) \/ verbose = 0 THEN st.total_size_this_folder
          ELSE st.total_size_this_folder + st_size(f),
      num_sized_files_total |-> st.num_sized_files_total + 1,
      num_sized_files_this_folder |-> st.num_sized_files_this_folder + 1,
      printed |-> st.printed ]

\* _get_dir_size: one file of the walk.  st is the call's locals:
\* total_size_this_folder, num_sized_files_total,
\* num_sized_files_this_folder, and the lines printed so far
SizeOneFile(st, f, verbose) ==
    LET total == st.num_sized_files_total + 1
        this == st.num_sized_files_this_folder + 1
        size == IF StatRaises(f) THEN st.total_size_this_folder
                ELSE st.total_size_this_folder + st_size(f)
        shown == verbose >= 1
                 /\ (total % ProgressEvery = 0 \/ this > ProgressEvery)
    IN  [ total_size_this_folder |-> size,
          num_sized_files_total |-> total,
          num_sized_files_this_folder |-> this,
          printed |-> IF shown
                      THEN Append(st.printed,
                                  ProgressLine("_get_dir_size", total, total))
                      ELSE st.printed ]

\* `for f in files`, left to right: the first half of the list, then the
\* second half starting from the locals the first half left.  The counter
\* is read first, so the locals are evaluated before the files are taken.
RECURSIVE SizeFiles(_, _, _)
SizeFiles(st, files, verbose) ==
    IF st.num_sized_files_this_folder < 0 \/ files = <<>> THEN st
    ELSE IF Len(files) = 1 THEN SizeOneFile(st, files[1], verbose)
    ELSE LET half == Len(files) \div 2
         IN  SizeFiles(SizeFiles(st, SubSeq(files, 1, half), verbose),
                       SubSeq(files, half + 1, Len(files)), verbose)

RECURSIVE SizeWalk(_, _, _)
SizeWalk(st, walk, verbose) ==
    IF walk = <<>> THEN st
    ELSE SizeWalk(SizeFiles(st, Head(walk), verbose), Tail(walk), verbose)

_get_dir_size(folder, num_sized_files_total, printed, verbose) ==
    SizeWalk([ total_size_this_folder |-> 0,
               num_sized_files_total |-> num_sized_files_total,
               num_sized_files_this_folder |-> 0,
               printed |-> printed ],
             os_walk(folder), verbose)

RECURSIVE CountWalk(_, _)
CountWalk(st, walk) ==
    IF walk = <<>> THEN st
    ELSE CountWalk([ total_count_this_folder |->
                        st.total_count_this_folder + Len(Head(walk)),
                     counted_files_total |->
                        st.counted_files_total + Len(Head(walk)) ],
                   Tail(walk))

_get_file_count(folder, counted_files_total) ==
    CountWalk([ total_count_this_folder |-> 0,
                counted_files_total |-> counted_files_total ],
              os_walk(folder))

\* the locals of scan_folder before the loop
ScanInit ==
    [ entries |-> << >>,
      processed_parent_items |-> 0,
      num_sized_files_total |-> 0,
      counted_files_total |-> 0,
      total_file_size_so_far |-> 0,
      printed |-> << >>,
      exc |-> "none" ]      \* the exception in flight, "none" when there is none

\* entries[entry.name] = (filecount_this_item, size_this_item)
Record_Swapped(l, name, size_this_item, filecount_this_item, verbose) ==
    [ l EXCEPT
        !.entries = [ n \in DOMAIN l.entries \cup {name} |->
                        IF n = name
                        THEN <<filecount_this_item, size_this_item>>
                        ELSE l.entries[n] ],
        !.total_file_size_so_far = @ + size_this_item ]

\* entries[entry.name] = (size_this_item, filecount_this_item), the running
\* size, and the progress line that ends the iteration
Record(l, name, size_this_item, filecount_this_item, verbose) ==
    LET size_so_far == IF size_this_item # 0
                       THEN l.total_file_size_so_far + size_this_item
                       ELSE l.total_file_size_so_far
        shown == verbose >= 1
                 /\ \/ l.counted_files_total % ProgressEvery = 0
                    \/ l.counted_files_total = filecount_this_item
                    \/ filecount_this_item > ProgressEvery
    IN  [ l EXCEPT
            !.entries = [ n \in DOMAIN l.entries \cup {name} |->
                            IF n = name
                            THEN <<size_this_item, filecount_this_item>>
                            ELSE l.entries[n] ],
            !.total_file_size_so_far = size_so_far,
            !.printed = IF shown
                        THEN Append(l.printed,
                                    ProgressLine("scan_folder",
                                                 l.counted_files_total,
                                                 size_so_far))
                        ELSE l.printed ]

\* counted_files_total incremented before entry.stat() is called
ScanFile_CountedBeforeStat(l, entry, verbose) ==
    LET l1 == [ l EXCEPT !.num_sized_files_total = @ + 1,
                         !.counted_files_total = @ + 1 ]
    IN  IF StatRaises(entry.node) THEN [ l1 EXCEPT !.exc = "OSError" ]
        ELSE Record(l1, entry.name, st_size(entry.node), 1, verbose)

\* a first-level regular file; entry.stat() may raise OSError
ScanFile(l, entry, verbose) ==
    LET l1 == [ l EXCEPT !.num_sized_files_total = @ + 1 ]
    IN  IF StatRaises(entry.node) THEN [ l1 EXCEPT !.exc = "OSError" ]
        ELSE Record([ l1 EXCEPT !.counted_files_total = @ + 1 ],
                    entry.name, st_size(entry.node), 1, verbose)

\* the pair returned by _get_file_count unpacked the wrong way round
ScanDir_CountFromTotal(l, entry, verbose) ==
    LET sized == _get_dir_size(entry.node, l.num_sized_files_total,
                               l.printed, verbose)
        counted == _get_file_count(entry.node, l.counted_files_total)
    IN  Record([ l EXCEPT
                   !.num_sized_files_total = sized.num_sized_files_total,
                   !.counted_files_total = counted.total_count_this_folder,
                   !.printed = sized.printed ],
               entry.name, sized.total_size_this_folder,
               counted.counted_files_total, verbose)

\* a first-level directory
ScanDir(l, entry, verbose) ==
    LET sized == _get_dir_size(entry.node, l.num_sized_files_total,
                               l.printed, verbose)
        counted == _get_file_count(entry.node, l.counted_files_total)
    IN  Record([ l EXCEPT
                   !.num_sized_files_total = sized.num_sized_files_total,
                   !.counted_files_total = counted.counted_files_total,
                   !.printed = sized.printed ],
               entry.name, sized.total_size_this_folder,
               counted.total_count_this_folder, verbose)

\* an entry whose type cannot be read recorded as an empty item
TryBody_RecordsZero(l, entry, verbose) ==
    IF TypeCheckRaises(entry.node) THEN Record(l, entry.name, 0, 0, verbose)
    ELSE IF is_file(entry.node) THEN ScanFile(l, entry, verbose)
    ELSE IF is_dir(entry.node) THEN ScanDir(l, entry, verbose)
    ELSE l

\* the try block of one iteration, up to the progress line that follows it
TryBody(l, entry, verbose) ==
    IF TypeCheckRaises(entry.node) THEN [ l EXCEPT !.exc = "OSError" ]
    ELSE IF is_file(entry.node) THEN ScanFile(l, entry, verbose)
    ELSE IF is_dir(entry.node) THEN ScanDir(l, entry, verbose)
    ELSE l

\* except PermissionError: OSError itself is let through
Catches_PermissionOnly(exc) == exc = "PermissionError"

\* except (OSError, PermissionError)
Catches(exc) == exc \in {"OSError", "PermissionError"}

\* one iteration of `for entry in dir_entries`: a caught exception ends the
\* iteration (continue), any other one leaves the loop and the call
ScanEntry(l, entry, verbose) ==
    LET t == TryBody([ l EXCEPT !.processed_parent_items = @ + 1 ],
                     entry, verbose)
    IN  IF t.exc # "none" /\ Catches(t.exc) THEN [ t EXCEPT !.exc = "none" ]
        ELSE t

\* the 'Completed' line printed before the return
Completed(l, verbose) ==
    IF verbose >= 1
    THEN Append(l.printed,
                ProgressLine("completed", l.counted_files_total,
                             l.total_file_size_so_far))
    ELSE l.printed

\* ------------------------------------------------------------ scan_folder
NoResult == [ returned |-> FALSE, entries |-> << >> ]

\* no table made, no directory being walked, no build function called yet
NoTable == [ made |-> FALSE, footer |-> << >>, rows |-> << >> ]
NoWalk == [ phase |-> "idle", stack |-> << >>,
            sized |-> << >>, counted |-> << >> ]
ExtIdle ==
    /\ impl = "none"
    /\ table = NoTable
    /\ walking = NoWalk
    /\ targets = << >>
    /\ changes = 0

\* the loop of scan_folder over the entries still to come
RECURSIVE ScanLoop(_, _, _)
ScanLoop(l, listing, verbose) ==
    IF listing = << >> \/ l.exc # "none" THEN l
    ELSE ScanLoop(ScanEntry(l, Head(listing), verbose), Tail(listing), verbose)

\* scan_folder(folder) as one call: what it returns, if it returns
scan_folder(folder, verbose) ==
    LET l == ScanLoop(ScanInit, folder.listing, verbose)
    IN  IF folder.ok /\ l.exc = "none"
        THEN [ returned |-> TRUE, entries |-> l.entries ]
        ELSE NoResult

Init ==
    /\ root \in Roots
    /\ verbose_level \in 0..2
    /\ frame = ScanInit
    /\ pc = "open"
    /\ result = NoResult
    /\ entries1 = << >> /\ entries2 = << >>
    /\ only_diffs = FALSE /\ data = << >> /\ built = FALSE
    /\ folders = << >> /\ calls = << >>
    /\ cpc = "idle" /\ report = [ formatted |-> FALSE, data |-> << >> ]
    /\ ExtIdle

\* with os.scandir(folder) as dir_entries
scan_open ==
    /\ pc = "open"
    /\ \/ root.ok /\ pc' = "loop"
       \/ ~root.ok /\ pc' = "raised"
    /\ UNCHANGED <<root, verbose_level, frame, result>>
    /\ UNCHANGED cmpVars
    /\ UNCHANGED progVars
    /\ UNCHANGED extVars

scan_entry ==
    /\ pc = "loop"
    /\ frame.processed_parent_items < Len(root.listing)
    /\ frame' = ScanEntry(frame, root.listing[frame.processed_parent_items + 1],
                        verbose_level)
    /\ pc' = IF frame'.exc # "none" THEN "raised" ELSE pc
    /\ UNCHANGED <<root, verbose_level, result>>
    /\ UNCHANGED cmpVars
    /\ UNCHANGED progVars
    /\ UNCHANGED extVars

scan_return ==
    /\ pc = "loop"
    /\ frame.processed_parent_items = Len(root.listing)
    /\ frame' = [ frame EXCEPT !.printed = Completed(frame, verbose_level) ]
    /\ result' = [ returned |-> TRUE, entries |-> frame.entries ]
    /\ pc' = "done"
    /\ UNCHANGED <<root, verbose_level>>
    /\ UNCHANGED cmpVars
    /\ UNCHANGED progVars
    /\ UNCHANGED extVars

Next == scan_open \/ scan_entry \/ scan_return

Spec == Init /\ [][Next]_vars

\* ------------------------------------------------------------ large directories
\* a directory of n readable files of `size` bytes each
BigDir(n, size) ==
    Node("dir", 0, TRUE, [ i \in 1..n |-> Node("file", size, TRUE, << >>) ])

\* first-level entries of a root whose directories hold about ProgressEvery
\* files: the sizes at which the progress lines of the two loops are printed
ProgressEntries ==
    { Node("file", sz, TRUE, << >>) : sz \in 0..MaxSize }
    \cup { Node("file", MaxSize, FALSE, << >>),
           Node("dir", 0, TRUE, << >>),
           Node("dir", 0, TRUE, << Node("file", MaxSize, FALSE, << >>) >>) }
    \cup { BigDir(n, sz) : n \in (ProgressEvery - 1)..(ProgressEvery + 1),
                           sz \in 0..MaxSize }

ProgressRoots ==
    { [ ok |-> TRUE, listing |-> Listing(f) ] :
        f \in UNION { [ 1..n -> ProgressEntries ] : n \in 0..MaxEntries } }

InitProgress ==
    /\ root \in ProgressRoots
    /\ verbose_level \in 0..2
    /\ frame = ScanInit
    /\ pc = "open"
    /\ result = NoResult
    /\ entries1 = << >> /\ entries2 = << >>
    /\ only_diffs = FALSE /\ data = << >> /\ built = FALSE
    /\ folders = << >> /\ calls = << >>
    /\ cpc = "idle" /\ report = [ formatted |-> FALSE, data |-> << >> ]
    /\ ExtIdle

SpecProgress == InitProgress /\ [][Next]_vars

\* ------------------------------------------------------------ os.walk, step by step
\* A path is the sequence of positions that leads from the root to an
\* entry: the first in the root's listing, the next ones in `children`.
RECURSIVE NodeBelow(_, _)
NodeBelow(node, path) ==
    IF path = << >> THEN node
    ELSE NodeBelow(node.children[Head(path)], Tail(path))

NodeAt(r, path) == NodeBelow(r.listing[Head(path)].node, Tail(path))

RECURSIVE PathsBelow(_, _)
PathsBelow(node, prefix) ==
    { prefix }
    \cup UNION { PathsBelow(node.children[i], Append(prefix, i)) :
                 i \in 1..Len(node.children) }

AllPaths(r) ==
    UNION { PathsBelow(r.listing[i].node, << i >>) : i \in 1..Len(r.listing) }

LinkPaths(r) == { q \in AllPaths(r) : NodeAt(r, q).kind = "symlink_dir" }
DirPaths(r) == { << >> } \cup { q \in AllPaths(r) : NodeAt(r, q).kind = "dir" }

\* what scandir(top) yields for the directory at `path`; the root is << >>
ChildrenAt(r, path) ==
    IF path = << >> THEN [ i \in 1..Len(r.listing) |-> r.listing[i].node ]
    ELSE NodeAt(r, path).children

Listable(r, path) ==
    IF path = << >> THEN r.ok ELSE NodeAt(r, path).ok

\* os.walk called with followlinks=True
followlinks_On == TRUE

\* os.walk(folder): followlinks keeps its default
followlinks == FALSE

\* the directories os.walk goes on to after listing `path`: every entry of
\* `dirs` that is no link, and the links too when followlinks is set; a
\* link leads to the directory it points to
Descended(r, path, tg) ==
    LET cs == ChildrenAt(r, path)
        idx == SelectSeq([ i \in 1..Len(cs) |-> i ],
                         LAMBDA i : /\ WalkIsDir(cs[i])
                                    /\ (followlinks \/ cs[i].kind = "dir"))
    IN  [ k \in 1..Len(idx) |->
            IF cs[idx[k]].kind = "dir" THEN Append(path, idx[k])
            ELSE tg[Append(path, idx[k])] ]

\* one step of the generator: the directory on top of the stack is listed,
\* its `files` are yielded, the directories to visit next are pushed
WalkStep(r, stack, tg) ==
    LET top == Head(stack)
    IN  IF Listable(r, top)
        THEN [ yielded |-> << SelectSeq(ChildrenAt(r, top),
                                        LAMBDA c : ~WalkIsDir(c)) >>,
               stack |-> Descended(r, top, tg) \o Tail(stack) ]
        ELSE [ yielded |-> << >>, stack |-> Tail(stack) ]

\* lines 95-109 for a directory whose two walks yielded walk1 and walk2
ScanDirWalked(l, entry, walk1, walk2, verbose) ==
    LET sized == SizeWalk([ total_size_this_folder |-> 0,
                            num_sized_files_total |-> l.num_sized_files_total,
                            num_sized_files_this_folder |-> 0,
                            printed |-> l.printed ],
                          walk1, verbose)
        counted == CountWalk([ total_count_this_folder |-> 0,
                               counted_files_total |-> l.counted_files_total ],
                             walk2)
    IN  Record([ l EXCEPT
                   !.num_sized_files_total = sized.num_sized_files_total,
                   !.counted_files_total = counted.counted_files_total,
                   !.printed = sized.printed ],
               entry.name, sized.total_size_this_folder,
               counted.total_count_this_folder, verbose)

WalkRoots ==
    { [ ok |-> TRUE, listing |-> Listing(f) ] :
        f \in UNION { ForestsOf(n) : n \in 0..MaxWalkNodes } }
    \cup { [ ok |-> FALSE, listing |-> << >> ] }

\* deeper trees of directories, links to directories and one-size files
LinkLeaves ==
    { Node("file", MaxSize, TRUE, << >>),
      Node("symlink_dir", 0, TRUE, << >>),
      Node("dir", 0, TRUE, << >>) }

RECURSIVE LinkTreesOf(_), LinkForestsOf(_)
LinkTreesOf(k) ==
    IF k = 1 THEN LinkLeaves
    ELSE { Node("dir", 0, TRUE, f) : f \in LinkForestsOf(k - 1) }

LinkForestsOf(n) ==
    IF n = 0 THEN { << >> }
    ELSE UNION { { << t >> \o f : t \in LinkTreesOf(k),
                                  f \in LinkForestsOf(n - k) } :
                 k \in 1..n }

LinkRoots ==
    { [ ok |-> TRUE, listing |-> Listing(f) ] :
        f \in UNION { LinkForestsOf(n) : n \in 0..MaxLinkNodes } }

\* no walk yields more often than the tree has directories; the walks stop
\* being followed beyond this many yields
WalkCap == MaxLinkNodes + MaxChanges

InitWalkScan(roots) ==
    /\ root \in roots
    /\ verbose_level \in 0..2
    /\ frame = ScanInit
    /\ pc = "open"
    /\ result = NoResult
    /\ entries1 = << >> /\ entries2 = << >>
    /\ only_diffs = FALSE /\ data = << >> /\ built = FALSE
    /\ folders = << >> /\ calls = << >>
    /\ cpc = "idle" /\ report = [ formatted |-> FALSE, data |-> << >> ]
    /\ impl = "none" /\ table = NoTable
    /\ walking = NoWalk
    /\ changes = 0

\* every link to a directory points to some directory of the tree: to an
\* ancestor, to the directory that holds it, or to another directory
InitWalk ==
    /\ InitWalkScan(WalkRoots \cup LinkRoots)
    /\ targets \in [ LinkPaths(root) -> DirPaths(root) ]

WalkFrame ==
    /\ UNCHANGED <<root, verbose_level, result>>
    /\ UNCHANGED <<impl, table, targets, changes>>
    /\ UNCHANGED cmpVars
    /\ UNCHANGED progVars

\* the next first-level entry: a directory starts the walk of _get_dir_size,
\* anything else is dealt with at once
walk_entry ==
    /\ pc = "loop"
    /\ walking.phase = "idle"
    /\ frame.processed_parent_items < Len(root.listing)
    /\ LET at == frame.processed_parent_items + 1
           entry == root.listing[at]
       IN  IF /\ ~TypeCheckRaises(entry.node)
              /\ ~is_file(entry.node)
              /\ is_dir(entry.node)
           THEN /\ frame' = [ frame EXCEPT !.processed_parent_items = at ]
                /\ walking' = [ phase |-> "size", stack |-> << << at >> >>,
                                sized |-> << >>, counted |-> << >> ]
                /\ pc' = pc
           ELSE /\ frame' = ScanEntry(frame, entry, verbose_level)
                /\ walking' = NoWalk
                /\ pc' = IF frame'.exc # "none" THEN "raised" ELSE pc
    /\ WalkFrame

\* for root, dirs, files in os.walk(folder), in _get_dir_size
walk_size ==
    /\ pc = "loop"
    /\ walking.phase = "size"
    /\ Len(walking.sized) <= WalkCap
    /\ IF walking.stack = << >>
       THEN walking' = [ walking EXCEPT
                           !.phase = "count",
                           !.stack = << << frame.processed_parent_items >> >> ]
       ELSE LET step == WalkStep(root, walking.stack, targets)
            IN  walking' = [ walking EXCEPT
                               !.stack = step.stack,
                               !.sized = @ \o step.yielded ]
    /\ UNCHANGED <<frame, pc>>
    /\ WalkFrame

\* for _, _, files in os.walk(folder), in _get_file_count; when it is over
\* the item is recorded
walk_count ==
    /\ pc = "loop"
    /\ walking.phase = "count"
    /\ Len(walking.counted) <= WalkCap
    /\ IF walking.stack = << >>
       THEN /\ frame' = ScanDirWalked(
                            frame, root.listing[frame.processed_parent_items],
                            walking.sized, walking.counted, verbose_level)
            /\ walking' = [ walking EXCEPT !.phase = "idle" ]
       ELSE LET step == WalkStep(root, walking.stack, targets)
            IN  /\ walking' = [ walking EXCEPT
                                  !.stack = step.stack,
                                  !.counted = @ \o step.yielded ]
                /\ frame' = frame
    /\ UNCHANGED pc
    /\ WalkFrame

\* the loop is over, the dict is returned
walk_return ==
    /\ walking.phase = "idle"
    /\ scan_return

NextWalk ==
    \/ scan_open
    \/ walk_entry
    \/ walk_size
    \/ walk_count
    \/ walk_return

\* the scan is the only process: it takes its next step whenever it has one
SpecWalk == InitWalk /\ [][NextWalk]_vars /\ WF_vars(NextWalk)

\* ------------------------------------------------------------ another process
RECURSIVE WithChildren(_, _, _)
WithChildren(node, path, children) ==
    IF path = << >> THEN [ node EXCEPT !.children = children ]
    ELSE [ node EXCEPT
             !.children[Head(path)] =
                 WithChildren(node.children[Head(path)], Tail(path), children) ]

\* the tree with the listing of the directory at `path` replaced
Rewritten(r, path, children) ==
    [ r EXCEPT !.listing[Head(path)].node =
                   WithChildren(r.listing[Head(path)].node, Tail(path), children) ]

\* the directories below the first-level entry that is being walked
WalkedDirs ==
    { q \in AllPaths(root) :
        /\ Head(q) = frame.processed_parent_items
        /\ NodeAt(root, q).kind = "dir"
        /\ NodeAt(root, q).ok }

InitRace ==
    /\ InitWalkScan(WalkRoots)
    /\ targets = [ q \in LinkPaths(root) |-> << >> ]

\* another process creates a file in the subtree, or deletes the file that
\* is the last entry of one of its directories, while the scan is in it
other_process ==
    /\ pc = "loop"
    /\ walking.phase \in {"size", "count"}
    /\ changes < MaxChanges
    /\ \E q \in WalkedDirs :
          LET cs == NodeAt(root, q).children
          IN  \/ \E sz \in 0..MaxSize :
                    root' = Rewritten(root, q,
                                      Append(cs, Node("file", sz, TRUE, << >>)))
              \/ /\ cs # << >>
                 /\ cs[Len(cs)].kind = "file"
                 /\ root' = Rewritten(root, q, SubSeq(cs, 1, Len(cs) - 1))
    /\ changes' = changes + 1
    /\ UNCHANGED <<verbose_level, frame, pc, result>>
    /\ UNCHANGED <<impl, table, walking, targets>>
    /\ UNCHANGED cmpVars
    /\ UNCHANGED progVars

NextRace == NextWalk \/ other_process

SpecRace == InitRace /\ [][NextRace]_vars

\* ------------------------------------------------------------ sorted()
\* sorted() on fewer than 64 items is a stable insertion sort: each item is
\* placed after the items that are not greater than it.
RECURSIVE InsertSorted(_, _)
InsertSorted(x, s) ==
    IF s = <<>> THEN <<x>>
    ELSE IF StrLess(x, Head(s)) THEN <<x>> \o s
    ELSE <<Head(s)>> \o InsertSorted(x, Tail(s))

RECURSIVE SortedFrom(_, _)
SortedFrom(done, rest) ==
    IF rest = <<>> THEN done
    ELSE SortedFrom(InsertSorted(Head(rest), done), Tail(rest))

\* sorted(..., reverse=True)
Sorted_Reversed(iterable) ==
    LET s == SortedFrom(<<>>, iterable)
    IN  [ i \in 1..Len(s) |-> s[Len(s) + 1 - i] ]

Sorted(iterable) == SortedFrom(<<>>, iterable)

\* The orders in which a Python set may hand out its members: any of them
\* (the order follows the members' hashes, which differ from run to run).
IterOrders(S) ==
    { s \in [1..Cardinality(S) -> S] :
        \A i, j \in 1..Cardinality(S) : i # j => s[i] # s[j] }

\* ------------------------------------------------------------ build_data
\* set(entries1.keys()) | set(entries2.keys())
KeyUnion(e1, e2) == DOMAIN e1 \cup DOMAIN e2

\* the key union taken as it comes, without sorted()
all_names_Unsorted(order) == order

\* all_names = sorted(set(...) | set(...)), the set iterated in `order`
all_names(order) == Sorted(order)

\* dict.get(name, default)
Get(d, name, default) == IF name \in DOMAIN d THEN d[name] ELSE default

\* '*' only when the first size is the larger one
sizediff_Greater(size1, size2) == IF size1 > size2 THEN "*" ELSE ""

sizediff(size1, size2) == IF size1 # size2 THEN "*" ELSE ""

\* '*' only when the first file count is the smaller one
filediff_Less(fc1, fc2) == IF fc1 < fc2 THEN "*" ELSE ""

filediff(fc1, fc2) == IF fc1 # fc2 THEN "*" ELSE ""

\* the file count of one side compared with the size of the other
diff_Crossed(size1, size2, fc1, fc2) ==
    IF fc1 # size2 \/ size1 # fc2 THEN "**" ELSE ""

\* `and` in place of `or`
diff_Both(size1, size2, fc1, fc2) ==
    IF fc1 # fc2 /\ size1 # size2 THEN "**" ELSE ""

diff(size1, size2, fc1, fc2) ==
    IF fc1 # fc2 \/ size1 # size2 THEN "**" ELSE ""

\* truth value of a str: the empty string is false
Truthy(s) == s # ""

\* if self.only_diffs and diff
Emitted_And(od, d) == od /\ Truthy(d)

\* if not self.only_diffs or diff
Emitted(od, d) == ~od \/ Truthy(d)

\* the two sides written to each other's columns
EntryRow_Swapped(name, size1, size2, fc1, fc2) ==
    [ Name |-> name,
      Size1 |-> size2, Size2 |-> size1, SD |-> sizediff(size1, size2),
      Filecount1 |-> fc2, Filecount2 |-> fc1, CD |-> filediff(fc1, fc2),
      DIFF |-> diff(size1, size2, fc1, fc2) ]

EntryRow(name, size1, size2, fc1, fc2) ==
    [ Name |-> name,
      Size1 |-> size1, Size2 |-> size2, SD |-> sizediff(size1, size2),
      Filecount1 |-> fc1, Filecount2 |-> fc2, CD |-> filediff(fc1, fc2),
      DIFF |-> diff(size1, size2, fc1, fc2) ]

\* the locals of build_data before the loop
LoopInit ==
    [ data |-> <<>>,
      total_size1 |-> 0, total_size2 |-> 0, total_fc1 |-> 0, total_fc2 |-> 0,
      size_diff_count |-> 0, file_diff_count |-> 0, diff_count |-> 0 ]

\* the totals accumulated inside `if not self.only_diffs or diff`
LoopBody_TotalsIfEmitted(loc, name, e1, e2, od) ==
    LET m1 == Get(e1, name, <<0, 0>>)
        m2 == Get(e2, name, <<0, 0>>)
        row == EntryRow(name, m1[1], m2[1], m1[2], m2[2])
        d1 == IF m1[1] # m2[1] THEN 1 ELSE 0
        d2 == IF m1[2] # m2[2] THEN 1 ELSE 0
    IN  IF Emitted(od, row.DIFF)
        THEN [ data |-> Append(loc.data, row),
               total_size1 |-> loc.total_size1 + m1[1],
               total_size2 |-> loc.total_size2 + m2[1],
               total_fc1 |-> loc.total_fc1 + m1[2],
               total_fc2 |-> loc.total_fc2 + m2[2],
               size_diff_count |-> loc.size_diff_count + d1,
               file_diff_count |-> loc.file_diff_count + d2,
               diff_count |-> loc.diff_count
                              + (IF d1 + d2 > 0 THEN 1 ELSE 0) ]
        ELSE loc

\* one iteration of `for name in all_names`
LoopBody(loc, name, e1, e2, od) ==
    LET m1 == Get(e1, name, <<0, 0>>)
        m2 == Get(e2, name, <<0, 0>>)
        size1 == m1[1]
        fc1 == m1[2]
        size2 == m2[1]
        fc2 == m2[2]
        row == EntryRow(name, size1, size2, fc1, fc2)
    IN  [ data |-> IF Emitted(od, row.DIFF) THEN Append(loc.data, row)
                   ELSE loc.data,
          total_size1 |-> loc.total_size1 + size1,
          total_size2 |-> loc.total_size2 + size2,
          total_fc1 |-> loc.total_fc1 + fc1,
          total_fc2 |-> loc.total_fc2 + fc2,
          size_diff_count |-> loc.size_diff_count
                              + (IF size1 # size2 THEN 1 ELSE 0),
          file_diff_count |-> loc.file_diff_count
                              + (IF fc1 # fc2 THEN 1 ELSE 0),
          diff_count |-> loc.diff_count
                         + (IF size1 # size2 \/ fc1 # fc2 THEN 1 ELSE 0) ]

RECURSIVE Loop(_, _, _, _, _)
Loop(loc, names, e1, e2, od) ==
    IF names = <<>> THEN loc
    ELSE Loop(LoopBody(loc, Head(names), e1, e2, od), Tail(names), e1, e2, od)

\* DIFF of the totals taken as the sum of the two other counts
totals_row_DiffIsSum(loc) ==
    [ Name |-> TOTAL,
      Size1 |-> loc.total_size1, Size2 |-> loc.total_size2,
      SD |-> loc.size_diff_count,
      Filecount1 |-> loc.total_fc1, Filecount2 |-> loc.total_fc2,
      CD |-> loc.file_diff_count,
      DIFF |-> loc.size_diff_count + loc.file_diff_count ]

totals_row(loc) ==
    [ Name |-> TOTAL,
      Size1 |-> loc.total_size1, Size2 |-> loc.total_size2,
      SD |-> loc.size_diff_count,
      Filecount1 |-> loc.total_fc1, Filecount2 |-> loc.total_fc2,
      CD |-> loc.file_diff_count,
      DIFF |-> loc.diff_count ]

\* the totals record appended only when there are entry rows
BuildData_NoTotalsWhenEmpty(e1, e2, od, order) ==
    LET loc == Loop(LoopInit, all_names(order), e1, e2, od)
    IN  IF loc.data = <<>> THEN <<>> ELSE Append(loc.data, totals_row(loc))

\* ComparisonData.build_data, the key union iterated in `order`
BuildData(e1, e2, od, order) ==
    LET loc == Loop(LoopInit, all_names(order), e1, e2, od)
    IN  Append(loc.data, totals_row(loc))

\* ------------------------------------------------------------ comparison
\* ComparisonData(entries1, entries2, only_diffs) for any two scan results
InitCompare ==
    /\ entries1 \in ScanResults
    /\ entries2 \in ScanResults
    /\ Cardinality(DOMAIN entries1) + Cardinality(DOMAIN entries2) <= MaxKeys
    /\ only_diffs \in BOOLEAN
    /\ data = <<>>
    /\ built = FALSE
    /\ root = [ ok |-> TRUE, listing |-> << >> ]
    /\ verbose_level = 0
    /\ frame = ScanInit
    /\ pc = "idle"
    /\ result = NoResult
    /\ folders = << >> /\ calls = << >>
    /\ cpc = "idle" /\ report = [ formatted |-> FALSE, data |-> << >> ]
    /\ ExtIdle

\* one call of build_data on the ComparisonData object
BuildStep ==
    /\ \E order \in IterOrders(KeyUnion(entries1, entries2)) :
          data' = BuildData(entries1, entries2, only_diffs, order)
    /\ built' = TRUE
    /\ UNCHANGED <<entries1, entries2, only_diffs>>

build_data ==
    /\ BuildStep
    /\ UNCHANGED scanVars
    /\ UNCHANGED progVars
    /\ UNCHANGED extVars

NextCompare == build_data

SpecCompare == InitCompare /\ [][NextCompare]_vars

\* ------------------------------------------------------------ chksync_func.py
\* a str of n box-drawing characters
Dashes(n) == [ i \in 1..n |-> 9472 ]

\* the separator row, the same literal in both functions
separator_row ==
    [ Name |-> Dashes(15),
      Size1 |-> Dashes(11), Size2 |-> Dashes(11), SD |-> Dashes(6),
      Filecount1 |-> Dashes(16), Filecount2 |-> Dashes(16),
      CD |-> Dashes(6), DIFF |-> Dashes(8) ]

\* chksync_func.ComparisonData.build_data: one iteration of the loop
func_LoopBody(loc, name, e1, e2, od) ==
    LET m1 == IF name \in DOMAIN e1 THEN e1[name] ELSE <<0, 0>>
        m2 == IF name \in DOMAIN e2 THEN e2[name] ELSE <<0, 0>>
        size1 == m1[1]
        fc1 == m1[2]
        size2 == m2[1]
        fc2 == m2[2]
        sd == IF size1 # size2 THEN "*" ELSE ""
        cd == IF fc1 # fc2 THEN "*" ELSE ""
        dd == IF fc1 # fc2 \/ size1 # size2 THEN "**" ELSE ""
        row == [ Name |-> name, Size1 |-> size1, Size2 |-> size2, SD |-> sd,
                 Filecount1 |-> fc1, Filecount2 |-> fc2, CD |-> cd,
                 DIFF |-> dd ]
    IN  [ data |-> IF ~od \/ dd # "" THEN Append(loc.data, row) ELSE loc.data,
          total_size1 |-> loc.total_size1 + size1,
          total_size2 |-> loc.total_size2 + size2,
          total_fc1 |-> loc.total_fc1 + fc1,
          total_fc2 |-> loc.total_fc2 + fc2,
          size_diff_count |-> loc.size_diff_count
                              + (IF size1 # size2 THEN 1 ELSE 0),
          file_diff_count |-> loc.file_diff_count
                              + (IF fc1 # fc2 THEN 1 ELSE 0),
          diff_count |-> loc.diff_count
                         + (IF size1 # size2 \/ fc1 # fc2 THEN 1 ELSE 0) ]

RECURSIVE func_Loop(_, _, _, _, _)
func_Loop(loc, names, e1, e2, od) ==
    IF names = <<>> THEN loc
    ELSE func_Loop(func_LoopBody(loc, Head(names), e1, e2, od),
                   Tail(names), e1, e2, od)

func_totals_row(loc) ==
    [ Name |-> <<84, 79, 84, 65, 76>>,
      Size1 |-> loc.total_size1, Size2 |-> loc.total_size2,
      SD |-> loc.size_diff_count,
      Filecount1 |-> loc.total_fc1, Filecount2 |-> loc.total_fc2,
      CD |-> loc.file_diff_count,
      DIFF |-> loc.diff_count ]

\* the separator row appended after the totals record
func_BuildData_SeparatorLast(e1, e2, od, order) ==
    LET loc == func_Loop(LoopInit, Sorted(order), e1, e2, od)
    IN  Append(Append(loc.data, func_totals_row(loc)), separator_row)

\* chksync_func.ComparisonData.build_data
func_BuildData(e1, e2, od, order) ==
    LET loc == func_Loop(LoopInit, Sorted(order), e1, e2, od)
    IN  Append(Append(loc.data, separator_row), func_totals_row(loc))

\* chksync_func.build_comparison_data: one iteration of the loop
bcd_LoopBody(loc, name, entries_1, entries_2, od) ==
    LET size1 == IF name \in DOMAIN entries_1 THEN entries_1[name][1] ELSE 0
        fc1 == IF name \in DOMAIN entries_1 THEN entries_1[name][2] ELSE 0
        size2 == IF name \in DOMAIN entries_2 THEN entries_2[name][1] ELSE 0
        fc2 == IF name \in DOMAIN entries_2 THEN entries_2[name][2] ELSE 0
        dd == IF fc1 # fc2 \/ size1 # size2 THEN "**" ELSE ""
        row == [ Name |-> name, Size1 |-> size1, Size2 |-> size2,
                 SD |-> IF size1 # size2 THEN "*" ELSE "",
                 Filecount1 |-> fc1, Filecount2 |-> fc2,
                 CD |-> IF fc1 # fc2 THEN "*" ELSE "",
                 DIFF |-> dd ]
    IN  [ loc EXCEPT
            !.data = IF ~od \/ dd # "" THEN Append(@, row) ELSE @,
            !.total_size1 = @ + size1,
            !.total_size2 = @ + size2,
            !.total_fc1 = @ + fc1,
            !.total_fc2 = @ + fc2,
            !.size_diff_count = IF size1 # size2 THEN @ + 1 ELSE @,
            !.file_diff_count = IF fc1 # fc2 THEN @ + 1 ELSE @,
            !.diff_count = IF size1 # size2 \/ fc1 # fc2 THEN @ + 1 ELSE @ ]

RECURSIVE bcd_Loop(_, _, _, _, _)
bcd_Loop(loc, names, entries_1, entries_2, od) ==
    IF names = <<>> THEN loc
    ELSE bcd_Loop(bcd_LoopBody(loc, Head(names), entries_1, entries_2, od),
                  Tail(names), entries_1, entries_2, od)

\* chksync_func.build_comparison_data(entries1, entries2, only_diffs)
build_comparison_data(entries_1, entries_2, od, order) ==
    LET loc == bcd_Loop(LoopInit, Sorted(order), entries_1, entries_2, od)
    IN  Append(Append(loc.data, separator_row), func_totals_row(loc))

\* the three build functions called on the same inputs, in any order
InitEquivalence ==
    /\ entries1 \in ScanResults
    /\ entries2 \in ScanResults
    /\ Cardinality(DOMAIN entries1) + Cardinality(DOMAIN entries2) <= MaxKeys
    /\ only_diffs \in BOOLEAN
    /\ data = <<>>
    /\ built = FALSE
    /\ root = [ ok |-> TRUE, listing |-> << >> ]
    /\ verbose_level = 0
    /\ frame = ScanInit
    /\ pc = "idle"
    /\ result = NoResult
    /\ folders = << >> /\ calls = << >>
    /\ cpc = "idle" /\ report = [ formatted |-> FALSE, data |-> << >> ]
    /\ ExtIdle

EquivalenceFrame ==
    /\ built' = TRUE
    /\ UNCHANGED <<entries1, entries2, only_diffs>>
    /\ UNCHANGED <<table, walking, targets, changes>>
    /\ UNCHANGED scanVars
    /\ UNCHANGED progVars

call_build_data ==
    /\ \E order \in IterOrders(KeyUnion(entries1, entries2)) :
          data' = BuildData(entries1, entries2, only_diffs, order)
    /\ impl' = "chksync.ComparisonData.build_data"
    /\ EquivalenceFrame

call_func_build_data ==
    /\ \E order \in IterOrders(KeyUnion(entries1, entries2)) :
          data' = func_BuildData(entries1, entries2, only_diffs, order)
    /\ impl' = "chksync_func.ComparisonData.build_data"
    /\ EquivalenceFrame

call_build_comparison_data ==
    /\ \E order \in IterOrders(KeyUnion(entries1, entries2)) :
          data' = build_comparison_data(entries1, entries2, only_diffs, order)
    /\ impl' = "chksync_func.build_comparison_data"
    /\ EquivalenceFrame

NextEquivalence ==
    \/ call_build_data
    \/ call_func_build_data
    \/ call_build_comparison_data

SpecEquivalence == InitEquivalence /\ [][NextEquivalence]_vars

\* ------------------------------------------------------------ RichFormatter
\* str(n) for a non-negative int
RECURSIVE DigitsOf(_)
DigitsOf(n) ==
    IF n < 10 THEN << 48 + n >>
    ELSE Append(DigitsOf(n \div 10), 48 + (n % 10))

\* the digits in groups of three from the right, a comma between groups
RECURSIVE Grouped(_)
Grouped(ds) ==
    IF Len(ds) <= 3 THEN ds
    ELSE Grouped(SubSeq(ds, 1, Len(ds) - 3))
         \o << 44 >> \o SubSeq(ds, Len(ds) - 2, Len(ds))

\* f"{n:,}"
FormatThousands(n) == Grouped(DigitsOf(n))

\* str() of the SD, CD and DIFF of an entry row
StrOf(flag) ==
    IF flag = "" THEN << >>
    ELSE IF flag = "*" THEN << 42 >>
    ELSE << 42, 42 >>

\* the footer cells taken from data[-1]
Footer(totals) ==
    << totals.Name,
       FormatThousands(totals.Size1), FormatThousands(totals.Size2),
       FormatThousands(totals.SD),
       FormatThousands(totals.Filecount1), FormatThousands(totals.Filecount2),
       FormatThousands(totals.CD), FormatThousands(totals.DIFF) >>

\* table.add_row(...) for one element of data
BodyRow(entry) ==
    << entry.Name,
       FormatThousands(entry.Size1), FormatThousands(entry.Size2),
       StrOf(entry.SD),
       FormatThousands(entry.Filecount1), FormatThousands(entry.Filecount2),
       StrOf(entry.CD), StrOf(entry.DIFF) >>

\* for entry in data: if entry['Name'] != 'TOTAL': table.add_row(...)
RECURSIVE BodyRows(_)
BodyRows(d) ==
    IF d = << >> THEN << >>
    ELSE (IF Head(d).Name # TOTAL THEN << BodyRow(Head(d)) >> ELSE << >>)
         \o BodyRows(Tail(d))

\* RichFormatter.format_output: the Table handed to console.print
RichTable(d) ==
    [ made |-> TRUE,
      footer |-> IF d # << >> THEN Footer(d[Len(d)]) ELSE << >>,
      rows |-> BodyRows(d) ]

\* scan results whose keys may include the name TOTAL
RichNamePool == { <<97>>, TOTAL }
RichScanResults == UNION { [S -> Measurements] : S \in SUBSET RichNamePool }

InitRich ==
    /\ entries1 \in RichScanResults
    /\ entries2 \in RichScanResults
    /\ only_diffs \in BOOLEAN
    /\ data = <<>>
    /\ built = FALSE
    /\ root = [ ok |-> TRUE, listing |-> << >> ]
    /\ verbose_level = 0
    /\ frame = ScanInit
    /\ pc = "idle"
    /\ result = NoResult
    /\ folders = << >> /\ calls = << >>
    /\ cpc = "idle" /\ report = [ formatted |-> FALSE, data |-> << >> ]
    /\ ExtIdle

\* formatter.format_output(data, folder1, folder2) with a RichFormatter
rich_format_output ==
    /\ built
    /\ table' = RichTable(data)
    /\ UNCHANGED <<impl, walking, targets, changes>>
    /\ UNCHANGED cmpVars
    /\ UNCHANGED scanVars
    /\ UNCHANGED progVars

NextRich == build_data \/ rich_format_output

SpecRich == InitRich /\ [][NextRich]_vars

\* ------------------------------------------------------------ two scans
\* the pairs of folders given to FolderComparator
RootsOf(n) ==
    { [ ok |-> TRUE, listing |-> Listing(f) ] : f \in ForestsOf(n) }
    \cup (IF n = 0 THEN { [ ok |-> FALSE, listing |-> << >> ] } ELSE { })

RootPairs ==
    UNION { { << a, b >> : a \in RootsOf(nm[1]), b \in RootsOf(nm[2]) } :
            nm \in { x \in (0..MaxPairNodes) \X (0..MaxPairNodes) :
                        x[1] + x[2] <= MaxPairNodes } }

NoReport == [ formatted |-> FALSE, data |-> << >> ]

\* a scan_folder call that has not opened its folder yet
NewCall == [ frame |-> ScanInit, pc |-> "open", result |-> NoResult ]

\* the locals kept on the scanner object: every call works on those of the
\* first call
OwnFrame_Shared(cs, i) == cs[1].frame

\* the locals of call i: entries and the counters are created by the call
OwnFrame(cs, i) == cs[i].frame

\* scan_folder call i: with os.scandir(folder) as dir_entries
call_open(i) ==
    /\ calls[i].pc = "open"
    /\ calls' = [ calls EXCEPT
                    ![i].pc = IF folders[i].ok THEN "loop" ELSE "raised" ]

\* scan_folder call i: one iteration of the loop
call_entry(i) ==
    /\ calls[i].pc = "loop"
    /\ LET l == OwnFrame(calls, i)
       IN  /\ l.processed_parent_items < Len(folders[i].listing)
           /\ LET t == ScanEntry(l,
                                 folders[i].listing[l.processed_parent_items + 1],
                                 verbose_level)
              IN  calls' = [ calls EXCEPT
                               ![i].frame = t,
                               ![i].pc = IF t.exc # "none" THEN "raised"
                                         ELSE "loop" ]

\* scan_folder call i: the loop is over, the dict is returned
call_return(i) ==
    /\ calls[i].pc = "loop"
    /\ LET l == OwnFrame(calls, i)
       IN  /\ l.processed_parent_items = Len(folders[i].listing)
           /\ calls' = [ calls EXCEPT
                           ![i].frame = [ l EXCEPT
                                            !.printed = Completed(l, verbose_level) ],
                           ![i].result = [ returned |-> TRUE,
                                           entries |-> l.entries ],
                           ![i].pc = "done" ]

call_step(i) == call_open(i) \/ call_entry(i) \/ call_return(i)

InitCalls ==
    /\ folders \in RootPairs
    /\ verbose_level \in 0..2
    /\ calls = << NewCall, NewCall >>
    /\ report = NoReport
    /\ entries1 = << >> /\ entries2 = << >>
    /\ data = << >> /\ built = FALSE
    /\ root = [ ok |-> TRUE, listing |-> << >> ]
    /\ frame = ScanInit
    /\ pc = "idle"
    /\ result = NoResult
    /\ ExtIdle

\* ------------------------------------------------------------ compare
\* a failed scan treated as an empty result: compare goes on
AfterScan_GoesOn(p, next) ==
    IF p \in {"done", "raised"} THEN next ELSE cpc

\* where compare is after a step of a scan: an exception of scan_folder is
\* not caught in compare and ends it
AfterScan(p, next) ==
    IF p = "raised" THEN "raised"
    ELSE IF p = "done" THEN next
    ELSE cpc

\* both constructor arguments taken from the first scan
ComparisonData_SameTwice(e1, e2, od) ==
    [ entries1 |-> e1, entries2 |-> e1, only_diffs |-> od ]

\* ComparisonData.__init__
ComparisonData(e1, e2, od) ==
    [ entries1 |-> e1, entries2 |-> e2, only_diffs |-> od ]

InitProgram ==
    /\ InitCalls
    /\ only_diffs \in BOOLEAN
    /\ cpc = "scan1"

\* entries1 = self.scanner.scan_folder(self.folder1)
compare_scan1 ==
    /\ cpc = "scan1"
    /\ call_step(1)
    /\ cpc' = AfterScan(calls'[1].pc, "scan2")
    /\ UNCHANGED <<folders, report>>
    /\ UNCHANGED cmpVars
    /\ UNCHANGED scanVars
    /\ UNCHANGED extVars

\* entries2 = self.scanner.scan_folder(self.folder2)
compare_scan2 ==
    /\ cpc = "scan2"
    /\ call_step(2)
    /\ cpc' = AfterScan(calls'[2].pc, "construct")
    /\ UNCHANGED <<folders, report>>
    /\ UNCHANGED cmpVars
    /\ UNCHANGED scanVars
    /\ UNCHANGED extVars

\* comparison_data = ComparisonData(entries1, entries2, self.args.only_diffs)
compare_construct ==
    /\ cpc = "construct"
    /\ LET obj == ComparisonData(calls[1].result.entries,
                                 calls[2].result.entries, only_diffs)
       IN  /\ entries1' = obj.entries1
           /\ entries2' = obj.entries2
           /\ only_diffs' = obj.only_diffs
    /\ cpc' = "build"
    /\ UNCHANGED <<data, built, folders, calls, report>>
    /\ UNCHANGED scanVars
    /\ UNCHANGED extVars

\* data = comparison_data.build_data()
compare_build ==
    /\ cpc = "build"
    /\ BuildStep
    /\ cpc' = "format"
    /\ UNCHANGED <<folders, calls, report>>
    /\ UNCHANGED scanVars
    /\ UNCHANGED extVars

\* formatter.format_output(data, self.folder1, self.folder2)
compare_format ==
    /\ cpc = "format"
    /\ report' = [ formatted |-> TRUE, data |-> data ]
    /\ cpc' = "done"
    /\ UNCHANGED <<folders, calls>>
    /\ UNCHANGED cmpVars
    /\ UNCHANGED scanVars
    /\ UNCHANGED extVars

NextProgram ==
    \/ compare_scan1
    \/ compare_scan2
    \/ compare_construct
    \/ compare_build
    \/ compare_format

SpecProgram == InitProgram /\ [][NextProgram]_vars

\* ------------------------------------------------------------ interleaved scans
\* two scan_folder calls of one FolderScanner whose steps alternate freely
InitInterleaved ==
    /\ InitCalls
    /\ only_diffs = FALSE
    /\ cpc = "idle"

scan_step(i) ==
    /\ call_step(i)
    /\ UNCHANGED <<folders, cpc, report>>
    /\ UNCHANGED cmpVars
    /\ UNCHANGED scanVars
    /\ UNCHANGED extVars

NextInterleaved == \E i \in 1..2 : scan_step(i)

SpecInterleaved == InitInterleaved /\ [][NextInterleaved]_vars

\* ------------------------------------------------------------ reading the output
\* all rows before the totals record
EntryRows(d) == SubSeq(d, 1, Len(d) - 1)

\* the totals record, the last element
Totals(d) == d[Len(d)]

RowSet(d) == { EntryRows(d)[i] : i \in 1..Len(EntryRows(d)) }

\* lexicographic order on code-point sequences, stated without recursion
NameBefore(a, b) ==
    \E k \in 1..(Len(b)) :
        /\ \A i \in 1..(k - 1) : i <= Len(a) /\ a[i] = b[i]
        /\ \/ Len(a) = k - 1
           \/ Len(a) >= k /\ a[k] < b[k]

\* size and file count of a name in a scan result, (0, 0) when it is no key
SizeIn(e, n) == IF n \in DOMAIN e THEN e[n][1] ELSE 0
CountIn(e, n) == IF n \in DOMAIN e THEN e[n][2] ELSE 0

RECURSIVE SumOver(_, _, _)
SumOver(S, e, k) ==
    IF S = {} THEN 0
    ELSE LET n == CHOOSE x \in S : TRUE
         IN  e[n][k] + SumOver(S \ {n}, e, k)

HasDiff(r) == r.DIFF = "**"

\* build_data on the same object state, the key union iterated in one order
Compare(e1, e2, od) ==
    BuildData(e1, e2, od, CHOOSE o \in IterOrders(KeyUnion(e1, e2)) : TRUE)

\* ------------------------------------------------------------ claims

\* C1: the entry rows of build_data's output are strictly ascending by name
\* (every earlier row's name is before every later row's name), for both
\* values of only_diffs; hence no name is in two rows.
C1_RowsAscending ==
    built =>
        \A i, j \in 1..Len(EntryRows(data)) :
            i < j => /\ NameBefore(data[i].Name, data[j].Name)
                     /\ data[i].Name # data[j].Name

C1_Witness ==
    /\ built
    /\ Len(EntryRows(data)) = 3
    /\ DOMAIN entries1 # {} /\ DOMAIN entries2 # {}

\* C2: comparing a scan result with itself gives no row with DIFF set and a
\* totals record with SD = CD = DIFF = 0.
NoDifference(d) ==
    /\ \A r \in RowSet(d) : r.DIFF = ""
    /\ Totals(d).SD = 0 /\ Totals(d).CD = 0 /\ Totals(d).DIFF = 0

C2_SelfCompare ==
    built =>
        /\ entries1 = entries2 => NoDifference(data)
        /\ NoDifference(Compare(entries1, entries1, only_diffs))
        /\ NoDifference(Compare(entries2, entries2, only_diffs))

C2_Witness ==
    /\ built /\ entries1 = entries2 /\ DOMAIN entries1 # {}
    /\ ~only_diffs /\ Len(EntryRows(data)) = 1
    /\ data[1].Size1 > 0 /\ data[1].Filecount1 > 0

\* C3: the only_diffs=true entry rows are the only_diffs=false entry rows
\* with DIFF set, in the same order, and the totals record is the same.
C3_OnlyDiffsFilter ==
    built =>
        LET other == Compare(entries1, entries2, ~only_diffs)
            filtered == IF only_diffs THEN data ELSE other
            full == IF only_diffs THEN other ELSE data
        IN  /\ EntryRows(filtered) = SelectSeq(EntryRows(full), HasDiff)
            /\ Totals(filtered) = Totals(full)

C3_Witness ==
    /\ built /\ only_diffs
    /\ Len(EntryRows(data)) = 1
    /\ Cardinality(KeyUnion(entries1, entries2)) = 3

\* C4: the totals record sums over every name of the union whatever
\* only_diffs is: Size1/Filecount1 over the keys of entries1, Size2/Filecount2
\* over the keys of entries2, and SD, CD, DIFF count the names whose sizes
\* differ, whose counts differ, whose size or count differs.
C4_TotalsOverUnion ==
    built =>
        LET t == Totals(data)
            U == KeyUnion(entries1, entries2)
        IN  /\ t.Name = TOTAL
            /\ t.Size1 = SumOver(DOMAIN entries1, entries1, 1)
            /\ t.Filecount1 = SumOver(DOMAIN entries1, entries1, 2)
            /\ t.Size2 = SumOver(DOMAIN entries2, entries2, 1)
            /\ t.Filecount2 = SumOver(DOMAIN entries2, entries2, 2)
            /\ t.SD = Cardinality({ n \in U :
                        SizeIn(entries1, n) # SizeIn(entries2, n) })
            /\ t.CD = Cardinality({ n \in U :
                        CountIn(entries1, n) # CountIn(entries2, n) })
            /\ t.DIFF = Cardinality({ n \in U :
                        \/ SizeIn(entries1, n) # SizeIn(entries2, n)
                        \/ CountIn(entries1, n) # CountIn(entries2, n) })

C4_Witness ==
    /\ built /\ only_diffs
    /\ Len(EntryRows(data)) < Cardinality(KeyUnion(entries1, entries2))
    /\ Totals(data).Size1 > 0 /\ Totals(data).Size1 = Totals(data).Size2
    /\ Totals(data).DIFF = 1

\* C5: a name that is a key of only one scan result gets a row with DIFF set
\* when its measurement there has a non-zero size or file count; when the
\* measurement is (0, 0) its row has DIFF clear (the row is in the output
\* when only_diffs is off, and no row for it has DIFF set in either mode).
OneSided(n) == (n \in DOMAIN entries1) # (n \in DOMAIN entries2)

OneSidedMeasurement(n) ==
    IF n \in DOMAIN entries1 THEN entries1[n] ELSE entries2[n]

C5_OneSidedName ==
    built =>
        \A n \in KeyUnion(entries1, entries2) :
            OneSided(n) =>
                IF OneSidedMeasurement(n) # <<0, 0>>
                THEN /\ \E r \in RowSet(data) : r.Name = n
                     /\ \A r \in RowSet(data) : r.Name = n => r.DIFF = "**"
                ELSE /\ \A r \in RowSet(data) : r.Name = n => r.DIFF = ""
                     /\ ~only_diffs => \E r \in RowSet(data) : r.Name = n

C5_Witness ==
    /\ built /\ ~only_diffs
    /\ \E n \in DOMAIN entries1 \ DOMAIN entries2 :
          /\ entries1[n] = <<0, 0>>
          /\ \E r \in RowSet(data) : r.Name = n /\ r.DIFF = ""
    /\ \E n \in DOMAIN entries2 \ DOMAIN entries1 :
          /\ entries2[n] = <<0, 1>>
          /\ \E r \in RowSet(data) : r.Name = n /\ r.DIFF = "**"

\* C6: every emitted row carries, for its name, the measurement stored in
\* entries1 (or (0, 0) when the name is no key of entries1) as
\* Size1/Filecount1, and likewise entries2 as Size2/Filecount2; with
\* only_diffs off every name of the union has its row.
C6_RowMeasurements ==
    built =>
        /\ \A r \in RowSet(data) :
              /\ r.Name \in KeyUnion(entries1, entries2)
              /\ r.Size1 = SizeIn(entries1, r.Name)
              /\ r.Filecount1 = CountIn(entries1, r.Name)
              /\ r.Size2 = SizeIn(entries2, r.Name)
              /\ r.Filecount2 = CountIn(entries2, r.Name)
        /\ ~only_diffs =>
              { r.Name : r \in RowSet(data) } = KeyUnion(entries1, entries2)

C6_Witness ==
    /\ built
    /\ \E r \in RowSet(data) :
          /\ r.Name \in DOMAIN entries1 \ DOMAIN entries2
          /\ r.Size1 = 1 /\ r.Filecount1 = 1 /\ r.Size2 = 0 /\ r.Filecount2 = 0
    /\ \E r \in RowSet(data) :
          /\ r.Name \in DOMAIN entries1 \cap DOMAIN entries2
          /\ r.Size1 = 0 /\ r.Filecount1 = 1 /\ r.Size2 = 1 /\ r.Filecount2 = 0

\* C7: in every emitted row SD is set exactly when Size1 # Size2, CD exactly
\* when Filecount1 # Filecount2, DIFF exactly when SD or CD is set.
C7_RowFlags ==
    built =>
        \A r \in RowSet(data) :
            /\ r.SD = (IF r.Size1 # r.Size2 THEN "*" ELSE "")
            /\ r.CD = (IF r.Filecount1 # r.Filecount2 THEN "*" ELSE "")
            /\ r.DIFF = (IF r.SD = "*" \/ r.CD = "*" THEN "**" ELSE "")

C7_Witness ==
    /\ built
    /\ \E r \in RowSet(data) : r.SD = "*" /\ r.CD = "" /\ r.DIFF = "**"
    /\ \E r \in RowSet(data) : r.SD = "" /\ r.CD = "*" /\ r.DIFF = "**"
    /\ \E r \in RowSet(data) : r.SD = "" /\ r.CD = "" /\ r.DIFF = ""

\* C8: on two empty scan results build_data can run and returns no entry
\* row and a totals record whose four sums and three counts are 0.
BothEmpty == DOMAIN entries1 = {} /\ DOMAIN entries2 = {}

C8_EmptyInputs ==
    BothEmpty =>
        /\ ~built => ENABLED build_data
        /\ built =>
              /\ Len(data) = 1
              /\ EntryRows(data) = <<>>
              /\ LET t == Totals(data)
                 IN  /\ t.Name = TOTAL
                     /\ t.Size1 = 0 /\ t.Size2 = 0
                     /\ t.Filecount1 = 0 /\ t.Filecount2 = 0
                     /\ t.SD = 0 /\ t.CD = 0 /\ t.DIFF = 0

C8_Witness == built /\ BothEmpty /\ Len(data) = 1

\* C9: the output is the same whatever order the keys are met in: for
\* every iteration order of the key union (every insertion order of the two
\* dicts), build_data returns the output it returned in this run.
C9_OrderIndependent ==
    built =>
        \A order \in IterOrders(KeyUnion(entries1, entries2)) :
            BuildData(entries1, entries2, only_diffs, order) = data

C9_Witness ==
    /\ built
    /\ Cardinality(KeyUnion(entries1, entries2)) = 3
    /\ Len(EntryRows(data)) = 3
    /\ DOMAIN entries1 \cap DOMAIN entries2 = {}

\* C10: every immediate child of the scanned root that is a regular file
\* with readable metadata is a key of the scan result, under its base name,
\* with the measurement (its byte length, 1): in the dict being filled as
\* soon as the loop has passed the entry, and in the dict returned.
ReadableFile(e) == e.node.kind = "file" /\ e.node.ok

C10_FirstLevelFile ==
    /\ \A i \in 1..frame.processed_parent_items :
          LET e == root.listing[i]
          IN  ReadableFile(e) =>
                 /\ e.name \in DOMAIN frame.entries
                 /\ frame.entries[e.name] = <<e.node.size, 1>>
    /\ pc = "done" =>
          /\ result.returned
          /\ \A i \in 1..Len(root.listing) :
                LET e == root.listing[i]
                IN  ReadableFile(e) =>
                       /\ e.name \in DOMAIN result.entries
                       /\ result.entries[e.name] = <<e.node.size, 1>>

C10_Witness ==
    /\ pc = "done"
    /\ Len(root.listing) = 3
    /\ root.listing[1].node.kind = "file" /\ ~root.listing[1].node.ok
    /\ ReadableFile(root.listing[2]) /\ root.listing[2].node.size = 0
    /\ ReadableFile(root.listing[3]) /\ root.listing[3].node.size = MaxSize
    /\ result.entries[root.listing[2].name] = <<0, 1>>
    /\ result.entries[root.listing[3].name] = <<MaxSize, 1>>

\* ------------------------------------------------------------ reading a tree
\* every entry below a directory that is not itself a directory
RECURSIVE Flatten(_)
Flatten(children) ==
    IF children = << >> THEN << >>
    ELSE (IF Head(children).kind = "dir" THEN Flatten(Head(children).children)
          ELSE << Head(children) >>)
         \o Flatten(Tail(children))

\* every directory below a directory
RECURSIVE DirsBelow(_)
DirsBelow(children) ==
    IF children = << >> THEN << >>
    ELSE (IF Head(children).kind = "dir"
          THEN << Head(children) >> \o DirsBelow(Head(children).children)
          ELSE << >>)
         \o DirsBelow(Tail(children))

RECURSIVE SizeSum(_)
SizeSum(nodes) ==
    IF nodes = << >> THEN 0
    ELSE IF Len(nodes) = 1 THEN nodes[1].size
    ELSE LET half == Len(nodes) \div 2
         IN  SizeSum(SubSeq(nodes, 1, half))
             + SizeSum(SubSeq(nodes, half + 1, Len(nodes)))

IsRegular(n) == n.kind = "file"
IsReadableRegular(n) == n.kind = "file" /\ n.ok

\* nothing in the subtree of d fails: every directory can be listed, every
\* entry's type and metadata can be read
NoFailureIn(d) ==
    /\ d.ok
    /\ \A i \in 1..Len(DirsBelow(d.children)) : DirsBelow(d.children)[i].ok
    /\ \A i \in 1..Len(Flatten(d.children)) :
          Flatten(d.children)[i].kind # "unknown" /\ Flatten(d.children)[i].ok

\* the subtree of d holds regular files and directories only
OnlyFilesAndDirs(d) ==
    \A i \in 1..Len(Flatten(d.children)) : Flatten(d.children)[i].kind = "file"

FirstLevel == { root.listing[i] : i \in 1..Len(root.listing) }
Passed == { root.listing[i] : i \in 1..frame.processed_parent_items }

\* C11: a first-level directory is recorded with the sum of the byte lengths
\* and the number of the regular files of its whole subtree; symbolic links
\* and other non-regular entries of the subtree add nothing.  (Stated for
\* subtrees in which nothing fails.)
C11_RegularFilesOnly ==
    \A e \in Passed :
        (e.node.kind = "dir" /\ NoFailureIn(e.node)) =>
            /\ e.name \in DOMAIN frame.entries
            /\ frame.entries[e.name] =
                 << SizeSum(SelectSeq(Flatten(e.node.children), IsRegular)),
                    Len(SelectSeq(Flatten(e.node.children), IsRegular)) >>

\* C12: an immediate child of the root that is a symbolic link (to a file or
\* to a directory) or another non-regular entry is never a key, neither of
\* the dict being filled nor of the dict returned.
NotFileNorDir(e) == e.node.kind \in {"symlink_file", "symlink_dir", "other"}

C12_OtherKindsExcluded ==
    \A e \in FirstLevel :
        NotFileNorDir(e) =>
            /\ e.name \notin DOMAIN frame.entries
            /\ e.name \notin DOMAIN result.entries

C12_Witness ==
    /\ pc = "done"
    /\ Len(root.listing) = 3
    /\ root.listing[1].node.kind = "symlink_file"
    /\ root.listing[2].node.kind = "file" /\ root.listing[2].node.ok
    /\ root.listing[3].node.kind \in {"symlink_dir", "other"}
    /\ DOMAIN result.entries = { root.listing[2].name }

\* C13: a file of a first-level directory's subtree that cannot be accessed
\* is left out of the size and of the file count of the directory, every
\* accessible file is in both.  (Stated for subtrees holding regular files
\* and directories only.)
C13_UnreadableExcluded ==
    \A e \in Passed :
        (e.node.kind = "dir" /\ e.node.ok /\ OnlyFilesAndDirs(e.node)) =>
            /\ e.name \in DOMAIN frame.entries
            /\ frame.entries[e.name] =
                 << SizeSum(SelectSeq(Flatten(e.node.children),
                                      IsReadableRegular)),
                    Len(SelectSeq(Flatten(e.node.children),
                                  IsReadableRegular)) >>

\* C15: once the root is open no failing entry ends the scan: no exception
\* leaves the loop, a step is always possible until the call has returned,
\* and it returns after the last entry.
C15_NoAbort ==
    root.ok =>
        /\ pc # "raised"
        /\ frame.exc = "none"
        /\ pc \in {"open", "loop"} => ENABLED Next
        /\ pc = "done" =>
              /\ result.returned
              /\ frame.processed_parent_items = Len(root.listing)

C15_Witness ==
    /\ pc = "done" /\ result.returned
    /\ Len(root.listing) = 2
    /\ \/ root.listing[1].node.kind = "unknown"
       \/ root.listing[1].node.kind = "file" /\ ~root.listing[1].node.ok
    /\ root.listing[2].node.kind = "dir"
    /\ Len(root.listing[2].node.children) = 1
    /\ ~root.listing[2].node.children[1].ok
    /\ root.listing[2].name \in DOMAIN result.entries

\* C16: when no first-level entry fails, the keys are exactly the base names
\* of the root's children that are regular files or directories: of those
\* passed so far while the loop runs, of all of them in the dict returned.
NoFirstLevelFailure ==
    \A e \in FirstLevel :
        e.node.kind # "unknown" /\ (e.node.kind = "file" => e.node.ok)

FileOrDir(e) == e.node.kind \in {"file", "dir"}

C16_KeySet ==
    NoFirstLevelFailure =>
        /\ DOMAIN frame.entries = { e.name : e \in { x \in Passed : FileOrDir(x) } }
        /\ pc = "done" =>
              DOMAIN result.entries =
                  { e.name : e \in { x \in FirstLevel : FileOrDir(x) } }

C16_Witness ==
    /\ pc = "done" /\ NoFirstLevelFailure
    /\ Len(root.listing) = 3
    /\ root.listing[1].node.kind = "dir"
    /\ root.listing[2].node.kind = "symlink_dir"
    /\ root.listing[3].node.kind = "file"
    /\ DOMAIN result.entries = { root.listing[1].name, root.listing[3].name }

\* C17: the scan result does not depend on the verbose level: the call made
\* in this run returned (or raised) what the call returns at level 0, 1, 2.
C17_VerboseIndependent ==
    pc \in {"done", "raised"} =>
        \A v \in 0..2 : scan_folder(root, v) = result

C17_Witness ==
    /\ pc = "done" /\ verbose_level = 1
    /\ Len(frame.printed) >= 2
    /\ \E e \in FirstLevel :
          /\ e.node.kind = "dir"
          /\ result.entries[e.name] = <<MaxSize, 2>>

\* C20: a failure on one first-level entry leaves the other entries'
\* measurements as they are in a scan of the same tree with that entry
\* accessible.
FailsAtFirstLevel(n) ==
    \/ n.kind = "unknown"
    \/ n.kind \in {"file", "dir"} /\ ~n.ok

Accessible(n) ==
    IF n.kind = "dir" THEN Node("dir", 0, TRUE, << >>)
    ELSE Node("file", n.size, TRUE, << >>)

WithAccessible(r, i) ==
    [ r EXCEPT !.listing[i].node = Accessible(r.listing[i].node) ]

C20_FailureLocal ==
    pc = "done" =>
        \A i \in 1..Len(root.listing) :
            FailsAtFirstLevel(root.listing[i].node) =>
                LET clean == scan_folder(WithAccessible(root, i), verbose_level)
                IN  /\ clean.returned
                    /\ \A j \in 1..Len(root.listing) :
                          j # i =>
                            LET n == root.listing[j].name
                            IN  /\ n \in DOMAIN result.entries
                                   <=> n \in DOMAIN clean.entries
                                /\ n \in DOMAIN result.entries
                                   => result.entries[n] = clean.entries[n]

C20_Witness ==
    /\ pc = "done"
    /\ Len(root.listing) = 2
    /\ root.listing[1].node.kind = "file" /\ ~root.listing[1].node.ok
    /\ root.listing[2].node.kind = "dir"
    /\ root.listing[1].name \notin DOMAIN result.entries
    /\ result.entries[root.listing[2].name] = <<MaxSize, 1>>

\* C14: a root that cannot be opened makes its scan_folder call raise and
\* return nothing; once either scan of compare has failed, compare is over:
\* no ComparisonData is made, no data built, no report formatted, and no
\* further step is taken.
C14_FailedScanStops ==
    /\ \A i \in 1..2 :
          (~folders[i].ok /\ calls[i].pc # "open") =>
              /\ calls[i].pc = "raised"
              /\ calls[i].result = NoResult
              /\ scan_folder(folders[i], verbose_level) = NoResult
    /\ (\E i \in 1..2 : calls[i].pc = "raised") =>
          /\ cpc = "raised"
          /\ ~built /\ data = << >>
          /\ entries1 = << >> /\ entries2 = << >>
          /\ report = NoReport
          /\ ~ENABLED NextProgram

C14_Witness ==
    /\ cpc = "raised"
    /\ folders[1].ok /\ ~folders[2].ok
    /\ calls[1].pc = "done" /\ calls[1].result.entries # << >>
    /\ calls[2].pc = "raised"

\* C18: comparison data is built only after both scans have completed, and
\* from the two results they returned; the report is formatted only after
\* the data is built, and from that data.
C18_CompareOrder ==
    /\ (cpc \in {"build", "format", "done"} \/ built) =>
          /\ \A i \in 1..2 :
                /\ calls[i].pc = "done"
                /\ calls[i].result = scan_folder(folders[i], verbose_level)
          /\ entries1 = calls[1].result.entries
          /\ entries2 = calls[2].result.entries
    /\ built =>
          data = Compare(calls[1].result.entries, calls[2].result.entries,
                         only_diffs)
    /\ report.formatted => (built /\ report.data = data)
    /\ cpc = "done" => report.formatted

C18_Witness ==
    /\ cpc = "done" /\ report.formatted
    /\ DOMAIN entries1 # { } /\ DOMAIN entries2 # { }
    /\ entries1 # entries2
    /\ Len(report.data) = 2

\* C19: the two scans of one scanner share no state: however their steps
\* alternate, each call returns (or raises) what a scan of its folder alone
\* returns, and its counters are those of a scan of its folder alone.
C19_ScansIndependent ==
    \A i \in 1..2 :
        /\ calls[i].pc = "done" =>
              /\ calls[i].result = scan_folder(folders[i], verbose_level)
              /\ calls[i].frame.entries = calls[i].result.entries
              /\ calls[i].frame.counted_files_total =
                   ScanLoop(ScanInit, folders[i].listing,
                            verbose_level).counted_files_total
        /\ calls[i].pc = "raised" =>
              /\ calls[i].result = NoResult
              /\ scan_folder(folders[i], verbose_level) = NoResult

C19_Witness ==
    /\ calls[1].pc = "loop" /\ calls[1].frame.processed_parent_items = 1
    /\ calls[2].pc = "done"
    /\ DOMAIN calls[1].frame.entries # { }
    /\ DOMAIN calls[2].result.entries # { }
    /\ calls[1].frame.entries # calls[2].result.entries

\* C23: the running totals of scan_folder are the sums over the dict: while
\* the loop runs, and when the call returns, counted_files_total is the sum
\* of the file counts and total_file_size_so_far the sum of the sizes over
\* all keys; the 'Completed' line shows these two sums.
C23_TotalsAreSums ==
    /\ frame.counted_files_total =
          SumOver(DOMAIN frame.entries, frame.entries, 2)
    /\ frame.total_file_size_so_far =
          SumOver(DOMAIN frame.entries, frame.entries, 1)
    /\ pc = "done" =>
          /\ frame.counted_files_total =
                SumOver(DOMAIN result.entries, result.entries, 2)
          /\ frame.total_file_size_so_far =
                SumOver(DOMAIN result.entries, result.entries, 1)
          /\ verbose_level >= 1 =>
                frame.printed[Len(frame.printed)] =
                    ProgressLine("completed",
                                 SumOver(DOMAIN result.entries, result.entries, 2),
                                 SumOver(DOMAIN result.entries, result.entries, 1))

C23_Witness ==
    /\ pc = "done" /\ verbose_level = 1
    /\ Len(root.listing) = 2
    /\ root.listing[1].node.kind = "dir"
    /\ Len(root.listing[1].node.children) = 1
    /\ ReadableFile(root.listing[2])
    /\ frame.counted_files_total = 2
    /\ frame.total_file_size_so_far = 2 * MaxSize
    /\ Cardinality(DOMAIN result.entries) = 2

\* C24: a first-level entry whose type check or metadata read raises is no
\* key of the dict, and the iteration that meets it changes neither the
\* dict nor counted_files_total nor total_file_size_so_far, and leaves the
\* loop running.
RaisesAtFirstLevel(n) ==
    n.kind = "unknown" \/ (n.kind = "file" /\ ~n.ok)

C24_FailingEntryLeftOut ==
    /\ [](\A e \in Passed :
             RaisesAtFirstLevel(e.node) => e.name \notin DOMAIN frame.entries)
    /\ [][ (/\ pc = "loop"
            /\ frame'.processed_parent_items = frame.processed_parent_items + 1
            /\ RaisesAtFirstLevel(
                  root.listing[frame.processed_parent_items + 1].node))
           => /\ frame'.entries = frame.entries
              /\ frame'.counted_files_total = frame.counted_files_total
              /\ frame'.total_file_size_so_far = frame.total_file_size_so_far
              /\ pc' = "loop" ]_vars

C24_Witness ==
    /\ pc = "done"
    /\ Len(root.listing) = 3
    /\ ReadableFile(root.listing[1]) /\ root.listing[1].node.size = MaxSize
    /\ root.listing[2].node.kind = "unknown"
    /\ root.listing[3].node.kind = "file" /\ ~root.listing[3].node.ok
    /\ DOMAIN result.entries = { root.listing[1].name }
    /\ frame.counted_files_total = 1
    /\ frame.total_file_size_so_far = MaxSize

\* C25: without only_diffs there are as many entry rows as names in the
\* union of the two key sets; with only_diffs there are as many entry rows
\* as the DIFF count of the totals record says.
C25_RowCount ==
    built =>
        /\ ~only_diffs =>
              Len(EntryRows(data)) =
                  Cardinality(KeyUnion(entries1, entries2))
        /\ only_diffs => Len(EntryRows(data)) = Totals(data).DIFF

C25_Witness ==
    /\ built /\ only_diffs
    /\ Cardinality(KeyUnion(entries1, entries2)) = 3
    /\ Len(EntryRows(data)) = 2
    /\ Totals(data).DIFF = 2
    /\ Totals(data).SD = 1 /\ Totals(data).CD = 2

\* C26: build_data on the two inputs exchanged gives the same names in the
\* same order with the same SD, CD and DIFF, the two sizes and the two file
\* counts exchanged in every row and in the totals record.
Exchanged(r) ==
    [ r EXCEPT !.Size1 = r.Size2, !.Size2 = r.Size1,
               !.Filecount1 = r.Filecount2, !.Filecount2 = r.Filecount1 ]

C26_SwapSides ==
    built =>
        LET swapped == Compare(entries2, entries1, only_diffs)
        IN  /\ Len(swapped) = Len(data)
            /\ \A i \in 1..Len(data) : swapped[i] = Exchanged(data[i])

C26_Witness ==
    /\ built
    /\ Len(EntryRows(data)) = 2
    /\ data[1].Size1 > data[1].Size2 /\ data[1].Filecount1 < data[1].Filecount2
    /\ data[2].DIFF = ""
    /\ Totals(data).Size1 # Totals(data).Size2
    /\ Totals(data).Filecount1 # Totals(data).Filecount2
    /\ Totals(data).DIFF = 1

\* C30: on the same inputs the two build functions of chksync_func.py return
\* the entry rows of chksync.py's build_data in the same order, then one
\* separator row, then the same totals record as the last element; and
\* chksync.py's build_data returns no separator row.
WithSeparator(d) ==
    Append(Append(EntryRows(d), separator_row), Totals(d))

C30_SameRows ==
    built =>
        LET ref == Compare(entries1, entries2, only_diffs)
        IN  /\ impl = "chksync.ComparisonData.build_data" => data = ref
            /\ impl \in { "chksync_func.ComparisonData.build_data",
                          "chksync_func.build_comparison_data" } =>
                  /\ data = WithSeparator(ref)
                  /\ Len(data) = Len(ref) + 1
                  /\ SubSeq(data, 1, Len(data) - 2) = EntryRows(ref)
                  /\ data[Len(data)] = Totals(ref)
            /\ \A i \in 1..Len(ref) : ref[i] # separator_row

C30_Witness ==
    /\ built
    /\ impl = "chksync_func.build_comparison_data"
    /\ only_diffs
    /\ Cardinality(KeyUnion(entries1, entries2)) = 3
    /\ Len(data) = 4
    /\ data[3] = separator_row
    /\ data[4].DIFF = 2
    /\ data[1].SD = "*" /\ data[2].SD = ""

\* C29: the table made by RichFormatter has one body row for every entry
\* row of build_data's output, in the same order and under the same name,
\* and its footer is the totals record, whatever the entries are named.
C29_AllRowsRendered ==
    table.made =>
        /\ Len(table.rows) = Len(EntryRows(data))
        /\ \A i \in 1..Len(EntryRows(data)) :
              i <= Len(table.rows) => table.rows[i] = BodyRow(data[i])
        /\ table.footer = Footer(Totals(data))

\* the files in the order in which one scan reads their sizes:
\* num_sized_files_total is the position in this order
RECURSIVE Concat(_)
Concat(lists) ==
    IF lists = << >> THEN << >> ELSE Head(lists) \o Concat(Tail(lists))

RECURSIVE SizingOrder(_)
SizingOrder(listing) ==
    IF listing = << >> THEN << >>
    ELSE (IF Head(listing).node.kind = "file" THEN << Head(listing).node >>
          ELSE IF Head(listing).node.kind = "dir"
               THEN Concat(os_walk(Head(listing).node))
               ELSE << >>)
         \o SizingOrder(Tail(listing))

\* the bytes read when the first k files of that order have been handled
BytesAfter(listing, k) ==
    SizeSum(SelectSeq(SubSeq(SizingOrder(listing), 1, k),
                      LAMBDA n : n.kind # "unknown"
                                 /\ (n.kind = "file" => n.ok)
                                 /\ n.kind # "symlink_dir"))

\* C22: every progress line shows the number of files handled so far and
\* the number of bytes accumulated so far: a line of _get_dir_size the bytes
\* read when that many files have been sized, a line of scan_folder the
\* two running totals after some first-level entry.
C22_ProgressPairs ==
    \A k \in 1..Len(frame.printed) :
        LET line == frame.printed[k]
        IN  /\ line.where = "_get_dir_size" =>
                  line.size = BytesAfter(root.listing, line.items)
            /\ line.where \in {"scan_folder", "completed"} =>
                  \E i \in 0..Len(root.listing) :
                      LET l == ScanLoop(ScanInit, SubSeq(root.listing, 1, i), 0)
                      IN  /\ line.items = l.counted_files_total
                          /\ line.size = l.total_file_size_so_far

\* C28: the file count shown in the progress lines of one scan, those of
\* scan_folder and those of _get_dir_size taken together in the order in
\* which they are printed, never decreases.
IsProgress(line) == line.where \in {"scan_folder", "_get_dir_size"}

C28_CountNeverDecreases ==
    \A j \in 1..Len(frame.printed) :
        \A k \in j..Len(frame.printed) :
            (IsProgress(frame.printed[j]) /\ IsProgress(frame.printed[k])) =>
                frame.printed[j].items <= frame.printed[k].items


\* ------------------------------------------------------------ C21
\* a link to a directory that points to the directory holding it or to one
\* of that directory's ancestors (the root included)
PointsUp(q) ==
    \E k \in 0..(Len(q) - 1) : targets[q] = SubSeq(q, 1, k)

HolderOf(q) == SubSeq(q, 1, Len(q) - 1)

\* C21: scan_folder terminates on every finite directory tree, also when
\* links to directories point to an ancestor or to each other: every scan
\* that is run step by step ends, by returning its dict or by raising.
C21_Terminates == <>(pc \in {"done", "raised"})

C21_Witness ==
    /\ pc = "done"
    /\ \E q1 \in LinkPaths(root), q2 \in LinkPaths(root) :
          /\ HolderOf(q1) # HolderOf(q2)
          /\ targets[q1] = HolderOf(q2)
          /\ targets[q2] = HolderOf(q1)
          /\ PointsUp(q2)
          /\ NameAt(Head(q1)) \in DOMAIN result.entries
    /\ walking.phase = "idle"
    /\ walking.sized # << >>

\* ------------------------------------------------------------ C27
\* C27: the size and the file count recorded for a first-level directory
\* describe the same set of files even when another process adds or removes
\* files in the subtree during the scan: when the directory is recorded, the
\* files the size walk saw are the files the count walk saw.
C27_SameFilesInBothWalks ==
    (pc = "loop" /\ walking.phase = "idle" /\ walking # NoWalk)
        => walking.sized = walking.counted

====
